---------------------------- MODULE Spec2Model ----------------------------
(***************************************************************************)
(* Model of a2tex.py: the author list to LaTeX / arXiv converter.          *)
(*                                                                         *)
(* Python strings that the program inspects character by character         *)
(* (names, first names, text to escape) are sequences of one-character     *)
(* strings.  Affiliations and ORCIDs, which the program only compares and  *)
(* copies, are TLA+ strings.  Strings built with chr() are sequences of    *)
(* code points.  A Python value that may be None is a sequence of length   *)
(* 0 (None) or 1 (the value).                                              *)
(***************************************************************************)
EXTENDS Integers, Sequences, FiniteSets, TLC

VARIABLES
    pc,                \* position of the run
    argv,              \* the command line handed to the program
    csv_file,          \* the file named by --authors-csv
    options,           \* argparse namespace (main, line 153)
    rows,              \* the sorted rows still to process (main, line 166)
    author_list,       \* main, line 159
    affiliation_list,  \* the AffiliationList instance (main, line 160)
    latex_fh,          \* lines written to the LaTeX file
    arxivoutput,       \* lines written to the arXiv file
    exit_status,       \* process exit status, -1 while running
    first_add,         \* harness: what the first add(s) returned, per s
    last_call,         \* harness: the last registry call and its result
    arg,               \* argument of the pure function under check
    result             \* its result(s)

vars == <<pc, argv, csv_file, options, rows, author_list, affiliation_list,
          latex_fh, arxivoutput, exit_status, first_add, last_call, arg, result>>

mainVars == <<argv, csv_file, options, rows, author_list, latex_fh,
              arxivoutput, exit_status>>
regVars == <<first_add, last_call>>
funVars == <<arg, result>>

-----------------------------------------------------------------------------
(* Bounds *)

MaxList == 4       \* longest registry list in the add/get_id harness
MaxRows == 2       \* most rows in the CSV file
MaxPos == 710      \* largest list position whose letter index is computed
MaxText == 3       \* longest string handed to latex_escape
MaxNames == 4      \* longest string handed to firstnames_to_initials

-----------------------------------------------------------------------------
(* Python values *)

None == <<>>
Some(x) == <<x>>

\* All sequences over S of length at most n.
SeqsUpTo(S, n) == UNION {[1..k -> S] : k \in 0..n}

\* ord('a')
ord_a == 97

\* Code point of the characters the model uses (str comparison, line 166).
ord(c) ==
    CASE c = "\t" -> 9
      [] c = " " -> 32
      [] c = "D" -> 68
      [] c = "J" -> 74
      [] c = "P" -> 80
      [] c = "d" -> 100
      [] c = "e" -> 101
      [] c = "j" -> 106
      [] c = "p" -> 112

\* The character class \s of re, on the characters the model uses.
IsSpace(c) == c \in {" ", "\t"}

\* str.capitalize()[0] of a token whose first character is c.
Upper(c) ==
    CASE c = "d" -> "D"
      [] c = "e" -> "E"
      [] c = "j" -> "J"
      [] c = "p" -> "P"
      [] OTHER -> c

\* Python's < on str: lexicographic by code point.
RECURSIVE StrLess(_, _)
StrLess(a, b) ==
    IF b = <<>> THEN FALSE
    ELSE IF a = <<>> THEN TRUE
    ELSE IF ord(Head(a)) < ord(Head(b)) THEN TRUE
    ELSE IF ord(Head(a)) > ord(Head(b)) THEN FALSE
    ELSE StrLess(Tail(a), Tail(b))

-----------------------------------------------------------------------------
(* class AffiliationList *)

Affiliations == {"CERN", "LAL", "Many more to come..."}

\* AffiliationList.__init__
NewAffiliationList(index_letter) ==
    [list |-> <<>>, index_letter |-> index_letter]

\* list.index(x): zero-based position of the first element equal to x, or
\* None where Python raises ValueError (LastIndex: the last element equal
\* to x instead).
LastIndex(l, x) ==
    IF \E i \in 1..Len(l) : l[i] = x
    THEN Some((CHOOSE i \in 1..Len(l) :
                  l[i] = x /\ \A j \in (i+1)..Len(l) : l[j] # x) - 1)
    ELSE None

ListIndex(l, x) ==
    IF \E i \in 1..Len(l) : l[i] = x
    THEN Some((CHOOSE i \in 1..Len(l) :
                  l[i] = x /\ \A j \in 1..(i-1) : l[j] # x) - 1)
    ELSE None

\* Lines 89-93: the letter index of zero-based position p, as code points.
LetterId(p) ==
    LET high_order == p \div 26
    IN  (IF high_order > 0 THEN <<ord_a + high_order - 1>> ELSE <<>>)
            \o <<ord_a + (p % 26)>>

\* Line 95: the number index.
NumberId(p) == p + 1

\* Lines 88-97: the index of zero-based position p in either mode.
IdOfPosition(index_letter, p) ==
    IF index_letter THEN LetterId(p) ELSE NumberId(p)

\* AffiliationList.get_id
get_id(self, affiliation) ==
    LET affiliation_index == ListIndex(self.list, affiliation)
    IN  IF affiliation_index = None THEN None
        ELSE Some(IdOfPosition(self.index_letter, affiliation_index[1]))

\* AffiliationList.add: the list after the append.
add_list(self, affiliation) ==
    [self EXCEPT !.list = Append(self.list, affiliation)]

\* AffiliationList.add: the value returned.
add_return(self, affiliation) ==
    get_id(add_list(self, affiliation), affiliation)

-----------------------------------------------------------------------------
(* firstnames_to_initials *)

\* A call's outcome: the exception raised ("" when none) and the value.
Returned(v) == [exception |-> "", value |-> v]
Raised(e) == [exception |-> e, value |-> <<>>]

\* re.split('\s', s): a new token starts after every whitespace character,
\* so adjacent, leading or trailing whitespace gives empty tokens.
RECURSIVE re_split(_)
re_split(s) ==
    IF \A i \in 1..Len(s) : ~IsSpace(s[i]) THEN <<s>>
    ELSE LET i == CHOOSE k \in 1..Len(s) :
                      IsSpace(s[k]) /\ \A j \in 1..(k-1) : ~IsSpace(s[j])
         IN  <<SubSeq(s, 1, i-1)>> \o re_split(SubSeq(s, i+1, Len(s)))

\* str.strip()
RECURSIVE strip(_)
strip(s) ==
    IF s = <<>> THEN s
    ELSE IF IsSpace(Head(s)) THEN strip(Tail(s))
    ELSE IF IsSpace(s[Len(s)]) THEN strip(SubSeq(s, 1, Len(s)-1))
    ELSE s

\* Lines 109-111: the loop over the tokens; token.capitalize()[0] raises
\* IndexError on an empty token.
RECURSIVE InitialsOfTokens(_, _)
InitialsOfTokens(tokens, initials) ==
    IF tokens = <<>> THEN Returned(initials)
    ELSE IF Head(tokens) = <<>> THEN Raised("IndexError")
    ELSE InitialsOfTokens(Tail(tokens),
                          initials \o <<Upper(Head(tokens)[1]), ".">>)

firstnames_to_initials(firstnames) ==
    LET r == InitialsOfTokens(re_split(firstnames), <<>>)
    IN  IF r.exception # "" THEN r ELSE Returned(strip(r.value))

-----------------------------------------------------------------------------
(* latex_escape *)

\* The character class [&%\$#_{}] of CHARS_TO_ESCAPE_PATTERN.
CharsToEscape == {"&", "%", "$", "#", "_", "{", "}"}

\* What re.sub writes for '~' and for '^' (one backslash each: the
\* replacement template's \\ is one literal backslash).
TextAsciiTilde ==
    <<"$", "\\", "t", "e", "x", "t", "a", "s", "c", "i", "i",
      "t", "i", "l", "d", "e", "$">>
TextAsciiCircum ==
    <<"$", "\\", "t", "e", "x", "t", "a", "s", "c", "i", "i",
      "c", "i", "r", "c", "u", "m", "$">>

\* Line 129: a backslash before every character of the class that the
\* string does not already precede with a backslash (EscapeEveryReserved:
\* the pattern without its lookbehind).
EscapeEveryReserved(string) ==
    LET RECURSIVE From(_)
        From(i) ==
            IF i > Len(string) THEN <<>>
            ELSE (IF string[i] \in CharsToEscape
                  THEN <<"\\", string[i]>>
                  ELSE <<string[i]>>) \o From(i + 1)
    IN  From(1)

EscapeReserved(string) ==
    LET RECURSIVE From(_)
        From(i) ==
            IF i > Len(string) THEN <<>>
            ELSE (IF /\ string[i] \in CharsToEscape
                     /\ (i = 1 \/ string[i-1] # "\\")
                  THEN <<"\\", string[i]>>
                  ELSE <<string[i]>>) \o From(i + 1)
    IN  From(1)

\* re.sub(re.escape(special_char), repl, string)
RECURSIVE ReplaceChar(_, _, _)
ReplaceChar(string, special_char, repl) ==
    IF string = <<>> THEN <<>>
    ELSE (IF Head(string) = special_char THEN repl ELSE <<Head(string)>>)
             \o ReplaceChar(Tail(string), special_char, repl)

\* Lines 131-132: '~' first, then '^' (the dict's order).
ReplaceSpecial(string) ==
    ReplaceChar(ReplaceChar(string, "~", TextAsciiTilde),
                "^", TextAsciiCircum)

latex_escape(string) == ReplaceSpecial(EscapeReserved(string))

-----------------------------------------------------------------------------
(* Constants and helpers of main *)

\* Lines 29-31.
EXIT_STATUS_SUCCESS == 0
EXIT_STATUS_OPTION_ERROR == 3
EXIT_STATUS_FAILURE == 5

\* Line 37.
ARXIV_AUTHORS_PREFIX_DEFAULT ==
    <<"H", "E", "P", " ", "S", "o", "f", "t", "w", "a", "r", "e", " ",
      "F", "o", "u", "n", "d", "a", "t", "i", "o", "n", ":", " ">>

\* What the interpreter does with the process exit status: parse_args ends
\* a bad command line with SystemExit(2) (line 153; SystemExit is no
\* Exception, so line 154 does not catch it), an exception nobody catches
\* ends the process with status 1, and a script that runs to its end
\* (line 203: main's return value is dropped) ends with status 0.
ArgparseErrorStatus == 2
UncaughtExceptionStatus == 1
ScriptEndStatus == 0

\* class Author, __init__
Author(name, affiliation_id, orcid) ==
    [name |-> name, affiliation_id |-> affiliation_id,
     orcid |-> IF orcid # None /\ orcid[1] # "" THEN orcid ELSE None]

\* sorted(rows, key=lambda x: x['Lastname']): stable, by str comparison
\* (UnsortedRows: the rows in file order).
UnsortedRows(rs) == rs

RECURSIVE sorted(_)
sorted(rs) ==
    IF rs = <<>> THEN <<>>
    ELSE LET init == sorted(SubSeq(rs, 1, Len(rs) - 1))
             r == rs[Len(rs)]
             \* r goes after every row whose key is not greater than its own
             n == Cardinality({i \in 1..Len(init) :
                                 ~StrLess(r.Lastname, init[i].Lastname)})
         IN  SubSeq(init, 1, n) \o <<r>> \o SubSeq(init, n + 1, Len(init))

\* Line 188: re.sub('\s', '~', name) replaces each whitespace character
\* (TildePerRun: the pattern '\s+' instead).
RECURSIVE TildePerRun(_)
TildePerRun(name) ==
    IF name = <<>> THEN <<>>
    ELSE IF IsSpace(Head(name))
         THEN IF Len(name) >= 2 /\ IsSpace(name[2])
              THEN TildePerRun(Tail(name))
              ELSE <<"~">> \o TildePerRun(Tail(name))
         ELSE <<Head(name)>> \o TildePerRun(Tail(name))

TildeForSpace(name) ==
    [i \in 1..Len(name) |-> IF IsSpace(name[i]) THEN "~" ELSE name[i]]

\* ', '.join(names)
RECURSIVE join(_)
join(names) ==
    IF names = <<>> THEN <<>>
    ELSE IF Len(names) = 1 THEN names[1]
    ELSE names[1] \o <<",", " ">> \o join(Tail(names))

\* Lines 183-194: the lines of the LaTeX file.
LatexLines(authors, affiliations) ==
    [i \in 1..Len(authors) |->
        [cmd |-> "author",
         index |-> authors[i].affiliation_id,
         text |-> TildeForSpace(authors[i].name),
         orcidlink |-> authors[i].orcid]]
    \o <<[cmd |-> "blank"]>>
    \o [i \in 1..Len(affiliations.list) |->
        [cmd |-> "affiliation",
         index |-> get_id(affiliations, affiliations.list[i])[1],
         text |-> affiliations.list[i]]]

\* Line 198: the line of the arXiv file.
ArxivLine(authors) ==
    ARXIV_AUTHORS_PREFIX_DEFAULT
        \o join([i \in 1..Len(authors) |-> authors[i].name])

-----------------------------------------------------------------------------
(* Values the variables hold while a specification does not use them *)

IdleMain ==
    /\ argv = None /\ csv_file = None /\ options = None /\ rows = <<>>
    /\ author_list = <<>> /\ latex_fh = <<>> /\ arxivoutput = <<>>
    /\ exit_status = -1
IdleReg == first_add = [s \in Affiliations |-> None] /\ last_call = None
IdleFun == arg = None /\ result = None

-----------------------------------------------------------------------------
(* Any sequence of add and get_id calls on one AffiliationList *)

InitReg ==
    /\ pc = "registry"
    /\ \E index_letter \in BOOLEAN :
           affiliation_list = NewAffiliationList(index_letter)
    /\ IdleReg /\ IdleMain /\ IdleFun

CallAdd ==
    /\ pc = "registry"
    /\ Len(affiliation_list.list) < MaxList
    /\ \E s \in Affiliations :
        /\ affiliation_list' = add_list(affiliation_list, s)
        /\ last_call' = Some([op |-> "add", affiliation |-> s,
                              returned |-> add_return(affiliation_list, s)])
        /\ first_add' = IF first_add[s] = None
                        THEN [first_add EXCEPT
                                ![s] = Some(add_return(affiliation_list, s))]
                        ELSE first_add
    /\ UNCHANGED <<pc, mainVars, funVars>>

CallGetId ==
    /\ pc = "registry"
    /\ \E s \in Affiliations :
        last_call' = Some([op |-> "get_id", affiliation |-> s,
                           returned |-> get_id(affiliation_list, s)])
    /\ UNCHANGED <<pc, affiliation_list, first_add, mainVars, funVars>>

NextReg == CallAdd \/ CallGetId

SpecReg == InitReg /\ [][NextReg]_vars

\* C1: get_id(s) returns None as long as add(s) was never called, and after
\* the first add(s) every get_id(s) returns what that first add(s) returned,
\* whatever adds (of other strings or of s again) happened in between.
\* first_add[s] is None until add(s) is called and then holds the first
\* add(s)'s return value for good.
C1_GetIdStable ==
    (last_call # None /\ last_call[1].op = "get_id") =>
        /\ first_add[last_call[1].affiliation] = None
               => last_call[1].returned = None
        /\ first_add[last_call[1].affiliation] # None
               => /\ last_call[1].returned # None
                  /\ last_call[1].returned =
                         first_add[last_call[1].affiliation][1]

\* s added, another string added, s added again, then get_id(s).
C1_Witness ==
    /\ last_call # None /\ last_call[1].op = "get_id"
    /\ first_add[last_call[1].affiliation] # None
    /\ \E i, j, k \in 1..Len(affiliation_list.list) :
        /\ i < j /\ j < k
        /\ affiliation_list.list[i] = last_call[1].affiliation
        /\ affiliation_list.list[j] # last_call[1].affiliation
        /\ affiliation_list.list[k] = last_call[1].affiliation

-----------------------------------------------------------------------------
(* The index of a list position, as a function of the position alone *)

InitId ==
    /\ pc = "id"
    /\ \E index_letter \in BOOLEAN, p \in 0..MaxPos :
           arg = Some([index_letter |-> index_letter, p |-> p])
    /\ result = None
    /\ affiliation_list = None
    /\ IdleMain /\ IdleReg

CallIdOfPosition ==
    /\ pc = "id"
    /\ result' = Some(IdOfPosition(arg[1].index_letter, arg[1].p))
    /\ pc' = "done"
    /\ UNCHANGED <<arg, affiliation_list, mainVars, regVars>>

NextId == CallIdOfPosition

SpecId == InitId /\ [][NextId]_vars

\* The p-th string (p >= 0) of a, b, ..., z, aa, ab, ..., az, ba, ..., zz,
\* aaa, ...: bijective base 26, as code points.
RECURSIVE Bijective26(_)
Bijective26(p) ==
    IF p < 26 THEN <<ord_a + p>>
    ELSE Bijective26((p \div 26) - 1) \o <<ord_a + (p % 26)>>

\* C5: in letter mode the index of every position p >= 0 is the p-th string
\* of the bijective base-26 sequence and is made of the letters a-z only,
\* at positions >= 702 too.
C5_LetterIdBijective ==
    (pc = "done" /\ arg[1].index_letter) =>
        /\ result[1] = Bijective26(arg[1].p)
        /\ \A i \in 1..Len(result[1]) :
               result[1][i] \in ord_a..(ord_a + 25)

-----------------------------------------------------------------------------
(* firstnames_to_initials on every short string *)

NameChars == {" ", "\t", "j", "p"}

InitInitials ==
    /\ pc = "initials"
    /\ arg \in {Some(s) : s \in SeqsUpTo(NameChars, MaxNames)}
    /\ result = None
    /\ affiliation_list = None
    /\ IdleMain /\ IdleReg

CallInitials ==
    /\ pc = "initials"
    /\ result' = Some(firstnames_to_initials(arg[1]))
    /\ pc' = "done"
    /\ UNCHANGED <<arg, affiliation_list, mainVars, regVars>>

NextInitials == CallInitials

SpecInitials == InitInitials /\ [][NextInitials]_vars

\* The tokens of s when it is split on whitespace runs: the maximal runs of
\* non-whitespace characters.
RECURSIVE TokensOfRuns(_)
TokensOfRuns(s) ==
    IF s = <<>> THEN <<>>
    ELSE IF IsSpace(Head(s)) THEN TokensOfRuns(Tail(s))
    ELSE LET n == CHOOSE k \in 1..Len(s) :
                      /\ \A j \in 1..k : ~IsSpace(s[j])
                      /\ (k = Len(s) \/ IsSpace(s[k+1]))
         IN  <<SubSeq(s, 1, n)>> \o TokensOfRuns(SubSeq(s, n+1, Len(s)))

RECURSIVE InitialsOfRuns(_)
InitialsOfRuns(tokens) ==
    IF tokens = <<>> THEN <<>>
    ELSE <<Upper(Head(tokens)[1]), ".">> \o InitialsOfRuns(Tail(tokens))

\* C7: firstnames_to_initials raises no error on any string and returns,
\* for the tokens obtained by splitting on whitespace runs, each token's
\* upper-cased first character followed by '.'; so '' and whitespace-only
\* strings give '' and extra whitespace gives no extra output.
C7_InitialsTotal ==
    pc = "done" =>
        /\ result[1].exception = ""
        /\ result[1].value = InitialsOfRuns(TokensOfRuns(arg[1]))

\* The part of C7 the code does satisfy: when no error is raised the value
\* is the one the claim describes.
C7_InitialsWhenReturned ==
    (pc = "done" /\ result[1].exception = "") =>
        result[1].value = InitialsOfRuns(TokensOfRuns(arg[1]))

-----------------------------------------------------------------------------
(* latex_escape applied twice to every short string *)

TextChars == {"&", "{", "$", "\\", "~", "^", "a"}

InitEscape ==
    /\ pc = "escape"
    /\ arg \in {Some(s) : s \in SeqsUpTo(TextChars, MaxText)}
    /\ result = None
    /\ affiliation_list = None
    /\ IdleMain /\ IdleReg

\* First pass.
CallEscape ==
    /\ pc = "escape"
    /\ result' = Some([first |-> latex_escape(arg[1])])
    /\ pc' = "escape_again"
    /\ UNCHANGED <<arg, affiliation_list, mainVars, regVars>>

\* Second pass, on the first pass's output; the value after line 129 is
\* kept beside the final one.
CallEscapeAgain ==
    /\ pc = "escape_again"
    /\ result' = Some([first |-> result[1].first,
                       second_reserved |-> EscapeReserved(result[1].first),
                       second |-> latex_escape(result[1].first)])
    /\ pc' = "done"
    /\ UNCHANGED <<arg, affiliation_list, mainVars, regVars>>

NextEscape == CallEscape \/ CallEscapeAgain

SpecEscape == InitEscape /\ [][NextEscape]_vars

HasSpecial(s) == \E i \in 1..Len(s) : s[i] \in {"~", "^"}

\* q is o with backslashes inserted, each immediately before a "$" of o.
RECURSIVE InsertedBeforeDollarOnly(_, _)
InsertedBeforeDollarOnly(o, q) ==
    IF o = <<>> THEN q = <<>>
    ELSE IF q = <<>> THEN FALSE
    ELSE \/ Head(q) = Head(o) /\ InsertedBeforeDollarOnly(Tail(o), Tail(q))
         \/ /\ Head(o) = "$" /\ Head(q) = "\\"
            /\ Len(q) >= 2 /\ q[2] = "$"
            /\ InsertedBeforeDollarOnly(Tail(o), Tail(Tail(q)))

\* C6 as stated: for every s, with ~ or ^ or without, the second pass's
\* line 129 leaves latex_escape(s) unchanged (no backslash is inserted).
C6_SecondPassInsertsNothing ==
    pc = "done" => result[1].second_reserved = result[1].first

\* C6 amended: the second pass inserts no backslash before & % # _ { };
\* the backslashes it inserts stand before the "$" delimiters of the
\* macros the first pass wrote for ~ and ^, so it changes latex_escape(s)
\* exactly when s contains ~ or ^, and the change is made by line 129 (no
\* ~ or ^ is left for lines 131-132).
C6_SecondPassOnlyMacroDollars ==
    pc = "done" =>
        /\ InsertedBeforeDollarOnly(result[1].first, result[1].second)
        /\ result[1].second = result[1].second_reserved
        /\ (result[1].second = result[1].first) <=> ~HasSpecial(arg[1])

\* An input with a reserved character and a ~: the & is escaped once, the
\* macro's delimiters are escaped by the second pass.
C6_Witness ==
    /\ pc = "done"
    /\ \E i, j \in 1..Len(arg[1]) : arg[1][i] = "&" /\ arg[1][j] = "~"
    /\ result[1].second # result[1].first

-----------------------------------------------------------------------------
(* A run of the program: main *)

\* Command lines.  affiliation is the set of the two exclusive flags given;
\* malformed stands for an option argparse rejects.
Argvs ==
    [malformed : BOOLEAN,
     affiliation : {{}, {"numbers"}},
     more_authors : BOOLEAN,
     use_initials : BOOLEAN,
     arxiv_authors_prefix : {None, Some(<<"X", ":", " ">>)}]
    \cup
    {[malformed |-> FALSE, affiliation |-> a, more_authors |-> FALSE,
      use_initials |-> FALSE, arxiv_authors_prefix |-> None] :
        a \in {{"letters"}, {"letters", "numbers"}}}

\* argparse rejects the command line.
Rejected(a) == a.malformed \/ a.affiliation = {"letters", "numbers"}

\* Rows of the CSV file.
Rows ==
    [Firstnames : {<<"j">>, <<"j", " ">>},
     Lastname : {<<"d">>, <<"e">>},
     Affiliation : Affiliations,
     ORCID : {"", "0000-0001"}]

\* Files --authors-csv may name: one that cannot be opened, one whose
\* header has no Lastname column, and the well-formed ones.
CsvFiles ==
    {[readable |-> FALSE, header_ok |-> FALSE, rows |-> <<>>]}
    \cup {[readable |-> TRUE, header_ok |-> FALSE, rows |-> <<r>>] :
            r \in Rows}
    \cup {[readable |-> TRUE, header_ok |-> TRUE, rows |-> rs] :
            rs \in SeqsUpTo(Rows, MaxRows)}

InitMain ==
    /\ pc = "start"
    /\ argv \in {Some(a) : a \in Argvs}
    /\ csv_file = None /\ options = None /\ rows = <<>>
    /\ author_list = <<>> /\ affiliation_list = None
    /\ latex_fh = <<>> /\ arxivoutput = <<>>
    /\ exit_status = -1
    /\ IdleReg /\ IdleFun

\* The process ends with an uncaught exception.
Crash ==
    /\ pc' = "exited"
    /\ exit_status' = UncaughtExceptionStatus

\* Lines 138-160.
ParseArgs ==
    /\ pc = "start"
    /\ IF Rejected(argv[1])
       THEN /\ pc' = "exited"
            /\ exit_status' = ArgparseErrorStatus
            /\ UNCHANGED <<options, affiliation_list>>
       ELSE /\ options' = Some(
                [arxiv_authors_prefix |->
                    IF argv[1].arxiv_authors_prefix = None
                    THEN ARXIV_AUTHORS_PREFIX_DEFAULT
                    ELSE argv[1].arxiv_authors_prefix[1],
                 more_authors |-> argv[1].more_authors,
                 use_initials |-> argv[1].use_initials,
                 affiliation_letters |-> TRUE,
                 affiliation_numbers |-> "numbers" \in argv[1].affiliation])
            /\ affiliation_list' =
                   NewAffiliationList(~("numbers" \in argv[1].affiliation))
            /\ pc' = "open"
            /\ UNCHANGED exit_status
    /\ UNCHANGED <<argv, csv_file, rows, author_list, latex_fh, arxivoutput,
                   regVars, funVars>>

\* Lines 164-166: open the file, read it, sort the rows.
OpenAuthors ==
    /\ pc = "open"
    /\ \E f \in CsvFiles :
        /\ csv_file' = Some(f)
        /\ IF ~f.readable \/ (~f.header_ok /\ f.rows # <<>>)
           THEN Crash /\ UNCHANGED rows
           ELSE /\ rows' = sorted(f.rows)
                /\ pc' = IF f.rows = <<>> THEN "more" ELSE "loop"
                /\ UNCHANGED exit_status
    /\ UNCHANGED <<argv, options, author_list, affiliation_list, latex_fh,
                   arxivoutput, regVars, funVars>>

\* Lines 167-174: one turn of the loop, on the next sorted row.
ProcessAuthor ==
    /\ pc = "loop"
    /\ LET author == rows[Len(author_list) + 1]
           found == get_id(affiliation_list, author.Affiliation)
           registry == IF found = None
                       THEN add_list(affiliation_list, author.Affiliation)
                       ELSE affiliation_list
           affiliation_id ==
               IF found = None
               THEN add_return(affiliation_list, author.Affiliation)
               ELSE found
           initials == firstnames_to_initials(author.Firstnames)
           name == (IF options[1].use_initials
                    THEN initials.value ELSE author.Firstnames)
                       \o <<" ">> \o author.Lastname
       IN  /\ affiliation_list' = registry
           /\ IF options[1].use_initials /\ initials.exception # ""
              THEN Crash /\ UNCHANGED author_list
              ELSE /\ author_list' =
                        Append(author_list,
                               Author(name, affiliation_id[1],
                                      Some(author.ORCID)))
                   /\ pc' = IF Len(author_list) + 1 = Len(rows)
                            THEN "more" ELSE "loop"
                   /\ UNCHANGED exit_status
    /\ UNCHANGED <<argv, csv_file, options, rows, latex_fh, arxivoutput,
                   regVars, funVars>>

\* Lines 177-179.
MoreAuthors ==
    /\ pc = "more"
    /\ IF options[1].more_authors
       THEN LET registry ==
                    add_list(affiliation_list, "Many more to come...")
            IN  /\ affiliation_list' = registry
                /\ author_list' =
                     Append(author_list,
                            Author(<<"A", "n", "d", " ", "m", "a", "n", "y",
                                     " ", "m", "o", "r", "e", " ", "t", "o",
                                     " ", "c", "o", "m", "e", ".", ".", ".">>,
                                   get_id(registry,
                                          "Many more to come...")[1],
                                   None))
       ELSE UNCHANGED <<affiliation_list, author_list>>
    /\ pc' = "latex"
    /\ UNCHANGED <<argv, csv_file, options, rows, latex_fh, arxivoutput,
                   exit_status, regVars, funVars>>

\* Lines 182-194.
WriteLatex ==
    /\ pc = "latex"
    /\ latex_fh' = LatexLines(author_list, affiliation_list)
    /\ pc' = "arxiv"
    /\ UNCHANGED <<argv, csv_file, options, rows, author_list,
                   affiliation_list, arxivoutput, exit_status,
                   regVars, funVars>>

\* Lines 197-199, and the end of the script.
WriteArxiv ==
    /\ pc = "arxiv"
    /\ arxivoutput' = <<ArxivLine(author_list)>>
    /\ pc' = "exited"
    /\ exit_status' = ScriptEndStatus
    /\ UNCHANGED <<argv, csv_file, options, rows, author_list,
                   affiliation_list, latex_fh, regVars, funVars>>

Next ==
    \/ ParseArgs
    \/ OpenAuthors
    \/ ProcessAuthor
    \/ MoreAuthors
    \/ WriteLatex
    \/ WriteArxiv

Spec == InitMain /\ [][Next]_vars

TypeOK ==
    /\ pc \in {"start", "open", "loop", "more", "latex", "arxiv", "exited"}
    /\ exit_status \in {-1, 0, 1, 2}
    /\ Len(author_list) <= Len(rows) + 1

-----------------------------------------------------------------------------
(* Claims about a run of main *)

Succeeded == pc = "exited" /\ exit_status = ScriptEndStatus

\* The \author lines and the \affiliation lines of the LaTeX file.
AuthorLines ==
    LET IsAuthor(l) == l.cmd = "author" IN SelectSeq(latex_fh, IsAuthor)
AffiliationLines ==
    LET IsAffiliation(l) == l.cmd = "affiliation"
    IN  SelectSeq(latex_fh, IsAffiliation)

\* C2: in every state of a run, whatever the rows and the flags, the
\* registry's list holds no two equal strings, and the LaTeX file has
\* exactly one \affiliation line per registry string.
C2_NoDuplicateAffiliation ==
    /\ affiliation_list # None =>
          \A i, j \in 1..Len(affiliation_list.list) :
              i # j => affiliation_list.list[i] # affiliation_list.list[j]
    /\ latex_fh # <<>> =>
          \A i \in 1..Len(affiliation_list.list) :
              Cardinality({k \in 1..Len(AffiliationLines) :
                  AffiliationLines[k].text = affiliation_list.list[i]}) = 1

\* C3: with --more-authors there is exactly one author line after those of
\* the input rows, and its affiliation index differs from the index on the
\* line of every input row.
C3_SyntheticIndexFresh ==
    (latex_fh # <<>> /\ options[1].more_authors) =>
        /\ Len(AuthorLines) = Len(rows) + 1
        /\ \A i \in 1..Len(rows) :
               AuthorLines[i].index # AuthorLines[Len(rows) + 1].index

\* Position in rows of the first row with affiliation a.
FirstSeen(a) ==
    CHOOSE i \in 1..Len(rows) :
        /\ rows[i].Affiliation = a
        /\ \A j \in 1..(i-1) : rows[j].Affiliation # a

RowAffiliations == {rows[i].Affiliation : i \in 1..Len(rows)}

\* The rows of rs whose Lastname is l, in their order in rs.
WithLastname(rs, l) ==
    LET Has(r) == r.Lastname = l IN SelectSeq(rs, Has)

C8_ArxivPrefixFromOption ==
    Succeeded =>
        arxivoutput =
            <<options[1].arxiv_authors_prefix
                \o join([i \in 1..Len(author_list) |-> author_list[i].name])>>

\* How a run ended.
Outcome ==
    IF Rejected(argv[1]) THEN "option error"
    ELSE IF arxivoutput # <<>> THEN "success"
    ELSE "runtime failure"

\* C9: a run ends in success, option error or runtime failure, and the
\* exit status is EXIT_STATUS_SUCCESS, EXIT_STATUS_OPTION_ERROR or
\* EXIT_STATUS_FAILURE accordingly.
C9_DocumentedExitStatus ==
    pc = "exited" =>
        exit_status =
            CASE Outcome = "success" -> EXIT_STATUS_SUCCESS
              [] Outcome = "option error" -> EXIT_STATUS_OPTION_ERROR
              [] Outcome = "runtime failure" -> EXIT_STATUS_FAILURE

\* The name of row i as main assembles it without --use-initials.
FullName(i) == rows[i].Firstnames \o <<" ">> \o rows[i].Lastname

\* name with every maximal whitespace run replaced by one "~".
RECURSIVE OneTildePerRun(_)
OneTildePerRun(name) ==
    IF name = <<>> THEN <<>>
    ELSE IF ~IsSpace(Head(name))
         THEN <<Head(name)>> \o OneTildePerRun(Tail(name))
    ELSE IF Len(name) >= 2 /\ IsSpace(name[2])
         THEN OneTildePerRun(Tail(name))
    ELSE <<"~">> \o OneTildePerRun(Tail(name))

\* C10 as stated: the name on each \author line is the display name with
\* every whitespace run replaced by one '~'; the arXiv line holds the
\* unmodified display names.
C10_OneTildePerRun ==
    Succeeded =>
        /\ \A i \in 1..Len(author_list) :
               AuthorLines[i].text = OneTildePerRun(author_list[i].name)
        /\ arxivoutput = <<ArxivLine(author_list)>>

\* C10 amended: the name on each \author line is the display name with
\* every whitespace character replaced by one '~' (a run of n whitespace
\* characters gives n of them) and every other character unchanged; the
\* arXiv line holds the unmodified display names, which without
\* --use-initials are Firstnames, a space and Lastname of each row.
C10_TildePerWhitespaceChar ==
    Succeeded =>
        /\ Len(AuthorLines) = Len(author_list)
        /\ \A i \in 1..Len(author_list) :
               LET name == author_list[i].name
                   text == AuthorLines[i].text
               IN  /\ Len(text) = Len(name)
                   /\ \A k \in 1..Len(name) :
                          text[k] = IF IsSpace(name[k]) THEN "~" ELSE name[k]
        /\ ~options[1].use_initials =>
               /\ \A i \in 1..Len(rows) : author_list[i].name = FullName(i)
               /\ arxivoutput =
                      <<ARXIV_AUTHORS_PREFIX_DEFAULT
                          \o join([i \in 1..Len(author_list) |->
                                     IF i <= Len(rows) THEN FullName(i)
                                     ELSE author_list[i].name])>>

\* A display name with two adjacent spaces, written with two '~'.
C10_Witness ==
    /\ Succeeded
    /\ \E i \in 1..Len(rows) :
           /\ author_list[i].name = <<"j", " ", " ", "d">>
           /\ AuthorLines[i].text = <<"j", "~", "~", "d">>

=============================================================================
